---- MODULE Spec2Model ----
(***************************************************************************)
(* led-matrix-timer: countdown timer on an 8x8 RGB LED matrix (main.c).    *)
(*                                                                         *)
(* The model has three parts:                                              *)
(*   - the two interrupt handlers ISR(PCINT0_vect), ISR(TIMER1_COMPA_vect) *)
(*     which write the volatile globals `state` and `enabled`;             *)
(*   - timer 1 in CTC mode (TCNT1 counts 0..OCR1A, the compare match sets  *)
(*     the interrupt flag OCF1A, which the handler's entry clears);        *)
(*   - the main loop, cut into one step per read of the volatile `state`   *)
(*     (lines 213, 221, 239, 244, 251, 258) and per _delay_ms: handlers    *)
(*     run to completion between any two such steps.  Everything between   *)
(*     two reads touches only locals of main and the shift register port,  *)
(*     which no handler touches, so it is part of the step of the read.    *)
(*                                                                         *)
(* Spec is the program at this grain: one call of show_leds is one step.   *)
(* SpecShift is one call of show_leds at the grain of the port writes of   *)
(* shift_out (lines 140-169), for frames drawn from FrameBytes, with the   *)
(* handlers running between any two port writes.                           *)
(***************************************************************************)
EXTENDS Integers, Sequences, FiniteSets, TLC

\* ---------------------------------------------------------------- bounds
\* Compare value of timer 1, scaled down (main.c sets 58593): the timer
\* period is OCR1A + 1 timer clocks.
OCR1A == 1

\* Interrupt handlers that run during one iteration of the main loop.
MaxIrq == 1

\* The count of timer handler runs since the countdown started saturates here.
MaxTicks == 65

\* ------------------------------------------------------- 8-bit arithmetic
RECURSIVE Pow2(_)
Pow2(n) == IF n = 0 THEN 1 ELSE 2 * Pow2(n - 1)

\* (uint8_t)(x << n)
Shl8(x, n) == (x * Pow2(n)) % 256

\* (uint8_t)~x
Not8(x) == 255 - x

Bit(x, i) == (x \div Pow2(i)) % 2

RECURSIVE OrBits(_, _, _)
OrBits(a, b, i) ==
    IF i = 8 THEN 0
    ELSE (IF Bit(a, i) = 1 \/ Bit(b, i) = 1 THEN Pow2(i) ELSE 0) + OrBits(a, b, i + 1)

\* a | b on bytes
Or8(a, b) == OrBits(a, b, 0)

\* ----------------------------------------------------------------- state
VARIABLES
    state,       \* volatile uint8_t state
    enabled,     \* volatile uint8_t enabled
    TCNT1,       \* timer 1 count
    OCF1A,       \* timer 1 compare-match interrupt flag (handler pending)
    pc,          \* line of main the main loop is at
    leds,        \* uint8_t leds[4]
    actual_row,  \* uint8_t actual_row
    last_red,    \* uint8_t last_red
    j,           \* row scan index of the for loop
    shown,       \* this iteration's outputs: frames given to show_leds, waits
    path,        \* branch this iteration took
    reads,       \* values this iteration's reads of `state` returned
    irqs,        \* handlers run since this iteration began
    last,        \* the last of them
    nticks,      \* timer handler runs since the countdown started (saturating)
    elapsed,     \* timer clocks since the countdown started (saturating)
    boot,        \* since reset: "fresh", "pressed" (a press was handled, no
                 \* frame sent yet), "shown" (a frame has been sent)
    arg,         \* SpecShift: the frame show_leds was called with
    bytes,       \* SpecShift: the array shift_out sends
    spc,         \* SpecShift: line of shift_out the call is at
    sj,          \* SpecShift: j of shift_out
    si,          \* SpecShift: i of shift_out
    DATA_PIN,    \* PORTC2, the data line
    LATCH_PIN,   \* PORTC1, the latch line
    CLOCK_PIN,   \* PORTC0, the clock line
    edges        \* SpecShift: data line level at each rising clock edge of the call

hw == <<TCNT1, OCF1A>>
shared == <<state, enabled>>
locals == <<pc, leds, actual_row, last_red, j>>
obs == <<shown, path, reads, boot>>
wire == <<arg, bytes, spc, sj, si, DATA_PIN, LATCH_PIN, CLOCK_PIN, edges>>
vars == <<state, enabled, TCNT1, OCF1A, pc, leds, actual_row, last_red, j,
          shown, path, reads, irqs, last, nticks, elapsed, boot, wire>>

\* ------------------------------------------------------------ the tables
red_left == <<1, 3, 7, 15, 8, 12, 14, 15>>
red_right == <<8, 12, 14, 15, 1, 3, 7, 15>>

\* A wait of the overtime branch, as an entry of `shown`.
Delay == <<500>>

\* Faulty variants of the frames: green lit in idle, red left on in the
\* second phase of the overtime flash.
IdleLeds_green == <<255, 0, 255, 255>>
BlankLeds_red == <<0, 255, 0, 0>>

\* The frames of lines 214-217, 222-225 and 228-231.
IdleLeds == <<255, 0, 0, 255>>
RedLeds == <<255, 255, 0, 0>>
BlankLeds == <<0, 0, 0, 0>>

\* --------------------------------------------------------------- startup
\* main's locals are not initialised by the code; each is written before it
\* is read on every path of the loop, so the value chosen here is never seen.
Init ==
    /\ state = 255
    /\ enabled = 0
    /\ TCNT1 = 0
    /\ OCF1A = FALSE
    /\ pc = "L213"
    /\ leds = <<0, 0, 0, 0>>
    /\ actual_row = 0
    /\ last_red = 0
    /\ j = 0
    /\ shown = <<>>
    /\ path = "none"
    /\ reads = {}
    /\ irqs = 0
    /\ last = "none"
    /\ nticks = 0
    /\ elapsed = 0
    /\ boot = "fresh"
    /\ arg = <<0, 0, 0, 0>>
    /\ bytes = <<0, 0, 0, 0>>
    /\ spc = "call"
    /\ sj = 0
    /\ si = 0
    /\ DATA_PIN = 0
    /\ LATCH_PIN = 0
    /\ CLOCK_PIN = 0
    /\ edges = <<>>

\* ---------------------------------------------------- interrupt handlers
\* Faulty variants of the handlers, used to show that the properties below
\* depend on the handlers' code.
\* A press in overtime restarts the countdown instead of going idle.
PCINT0_vect_restart(pressed, s, e, t) ==
    IF pressed
    THEN IF s = 255 \/ s > 63 THEN <<0, 1, 0>> ELSE <<255, 0, t>>
    ELSE <<s, e, t>>

\* The level of the pin is not tested: both edges toggle.
PCINT0_vect_anyedge(pressed, s, e, t) ==
    IF s = 255 THEN <<0, 1, 0>> ELSE <<255, 0, t>>

\* The start press sets state to 0 but does not turn the counting on.
PCINT0_vect_nostart(pressed, s, e, t) ==
    IF pressed
    THEN IF s = 255 THEN <<0, e, 0>> ELSE <<255, 0, t>>
    ELSE <<s, e, t>>

\* The timer is turned off one tick late.
TIMER1_COMPA_vect_late(s, e) ==
    IF e # 0
    THEN LET s1 == (s + 1) % 256
         IN  <<s1, IF s1 > 64 THEN 0 ELSE e>>
    ELSE <<s, e>>

\* The display state wraps to 0 after 63.
TIMER1_COMPA_vect_wrap(s, e) ==
    IF e # 0
    THEN LET s1 == (s + 1) % 256
         IN  IF s1 > 63 THEN <<0, 0>> ELSE <<s1, e>>
    ELSE <<s, e>>

\* `enabled` is not tested.
TIMER1_COMPA_vect_always(s, e) ==
    LET s1 == (s + 1) % 256
    IN  <<s1, IF s1 > 63 THEN 0 ELSE e>>

\* Body of ISR(PCINT0_vect): `pressed` is the level read from the button
\* pin; the result is <<state, enabled, TCNT1>>.
PCINT0_vect(pressed, s, e, t) ==
    IF pressed
    THEN IF s = 255 THEN <<0, 1, 0>> ELSE <<255, 0, t>>
    ELSE <<s, e, t>>

\* Body of ISR(TIMER1_COMPA_vect): the result is <<state, enabled>>.
TIMER1_COMPA_vect(s, e) ==
    IF e # 0
    THEN LET s1 == (s + 1) % 256
         IN  <<s1, IF s1 > 63 THEN 0 ELSE e>>
    ELSE <<s, e>>

\* Timer 1 counts one timer clock; in CTC mode the count after OCR1A is 0
\* and the compare match raises the interrupt flag.
TimerClock ==
    /\ TCNT1' = IF TCNT1 = OCR1A THEN 0 ELSE TCNT1 + 1
    /\ OCF1A' = (OCF1A \/ TCNT1 = OCR1A)
    /\ elapsed' = IF elapsed <= OCR1A THEN elapsed + 1 ELSE elapsed
    /\ UNCHANGED <<shared, locals, obs, irqs, last, nticks, wire>>

\* The pin-change interrupt is taken: the handler runs to completion.
ISR_PCINT0(pressed) ==
    /\ irqs < MaxIrq
    /\ LET r == PCINT0_vect(pressed, state, enabled, TCNT1)
       IN  /\ state' = r[1]
           /\ enabled' = r[2]
           /\ TCNT1' = r[3]
    /\ irqs' = irqs + 1
    /\ last' = IF pressed THEN "press" ELSE "release"
    /\ nticks' = IF pressed /\ state = 255 THEN 0 ELSE nticks
    /\ elapsed' = IF pressed /\ state = 255 THEN 0 ELSE elapsed
    /\ boot' = IF pressed /\ boot = "fresh" THEN "pressed" ELSE boot
    /\ UNCHANGED <<OCF1A, locals, shown, path, reads, wire>>

\* The compare-match interrupt is taken: its flag is cleared on entry and
\* the handler runs to completion.
ISR_TIMER1_COMPA ==
    /\ irqs < MaxIrq
    /\ OCF1A
    /\ OCF1A' = FALSE
    /\ LET r == TIMER1_COMPA_vect(state, enabled)
       IN  /\ state' = r[1]
           /\ enabled' = r[2]
    /\ irqs' = irqs + 1
    /\ last' = "tick"
    /\ nticks' = IF state # 255 /\ nticks < MaxTicks THEN nticks + 1 ELSE nticks
    /\ UNCHANGED <<TCNT1, locals, obs, elapsed, wire>>

\* ------------------------------------------------------------- rendering
\* show_leds negates bytes[1..3] in place before shift_out sends the four
\* bytes: the result is the array b as show_leds leaves it.
show_leds(b) == <<b[1], Not8(b[2]), Not8(b[3]), Not8(b[4])>>

\* Faulty variant: the row index is not folded back into 0..7.
ActualRow_nofold(s) == s \div 4

\* actual_row = (int) state / 4; if (actual_row > 7) actual_row -= 8;
ActualRow(s) ==
    LET q == s \div 4
    IN  IF q > 7 THEN q - 8 ELSE q

\* last_red = state % 8;
LastRed(s) == s % 8

\* Faulty variant: the downward scan starts one position too high, so the
\* row bit of row 0 is shifted out of the byte.
RowByte_high(s, row) == IF s < 32 THEN Shl8(1, 8 - row) ELSE Shl8(1, row)

\* leds[0] of row j, from the value s the read of line 251 returned.
RowByte(s, row) == IF s < 32 THEN Shl8(1, 7 - row) ELSE Shl8(1, row)

\* Faulty variant: in the first half the rows before the active row are
\* left dark instead of being kept filled.
RedByte_nofill(s, row, arow, lred) ==
    IF s < 32
    THEN IF row = arow THEN Shl8(red_left[lred + 1], 4)
         ELSE 0
    ELSE IF row = arow THEN Or8(red_right[lred + 1], 240)
         ELSE IF row < arow THEN Or8(red_right[3 + 1], 240)
         ELSE 240

\* leds[1] of row j, from the value s the read of line 258 returned.
RedByte(s, row, arow, lred) ==
    IF s < 32
    THEN IF row = arow THEN Shl8(red_left[lred + 1], 4)
         ELSE IF row < arow THEN Shl8(red_left[3 + 1], 4)
         ELSE 0
    ELSE IF row = arow THEN Or8(red_right[lred + 1], 240)
         ELSE IF row < arow THEN Or8(red_right[3 + 1], 240)
         ELSE 240

\* One frame goes out: show_leds(leds).
Show(frame, sofar) ==
    /\ leds' = show_leds(frame)
    /\ shown' = Append(sofar, frame)
    /\ boot' = "shown"

\* ------------------------------------------------------------- main loop
\* Line 213: a new iteration; `if (state == 255)` and, when it holds, the
\* idle branch.
Main_L213 ==
    /\ pc = "L213"
    /\ reads' = {state}
    /\ irqs' = 0
    /\ last' = "none"
    /\ IF state = 255
       THEN /\ Show(IdleLeds, <<>>)
            /\ path' = "idle"
            /\ pc' = "L213"
       ELSE /\ shown' = <<>>
            /\ path' = "none"
            /\ pc' = "L221"
            /\ UNCHANGED <<leds, boot>>
    /\ UNCHANGED <<shared, hw, actual_row, last_red, j, nticks, elapsed, wire>>

\* Line 221: `else if (state > 63)` and, when it holds, the red frame of
\* the overtime branch; the loop then waits in the first _delay_ms.
Main_L221 ==
    /\ pc = "L221"
    /\ reads' = reads \cup {state}
    /\ IF state > 63
       THEN /\ Show(RedLeds, shown)
            /\ path' = "overtime"
            /\ pc' = "L227"
       ELSE /\ path' = "running"
            /\ pc' = "L239"
            /\ UNCHANGED <<leds, shown, boot>>
    /\ UNCHANGED <<shared, hw, actual_row, last_red, j, irqs, last, nticks, elapsed, wire>>

\* Faulty variant: the state is looked at after the first wait and the
\* rest of the flash is dropped when a press has reset it.
Main_L227_recheck ==
    /\ pc = "L227"
    /\ IF state = 255
       THEN /\ shown' = Append(shown, Delay)
            /\ pc' = "L213"
            /\ UNCHANGED <<leds, boot>>
       ELSE /\ Show(BlankLeds, Append(shown, Delay))
            /\ pc' = "L233"
    /\ UNCHANGED <<shared, hw, actual_row, last_red, j, path, reads, irqs, last, nticks,
                   elapsed, wire>>

\* Line 227: the first wait ends; lines 228-232 send the blank frame and
\* the loop waits in the second _delay_ms.
Main_L227 ==
    /\ pc = "L227"
    /\ Show(BlankLeds, Append(shown, Delay))
    /\ pc' = "L233"
    /\ UNCHANGED <<shared, hw, actual_row, last_red, j, path, reads, irqs, last, nticks,
                   elapsed, wire>>

\* Line 233: the second wait ends and the iteration with it.
Main_L233 ==
    /\ pc = "L233"
    /\ shown' = Append(shown, Delay)
    /\ pc' = "L213"
    /\ UNCHANGED <<shared, hw, leds, actual_row, last_red, j, path, reads, boot,
                   irqs, last, nticks, elapsed, wire>>

\* Lines 239-241.
Main_L239 ==
    /\ pc = "L239"
    /\ reads' = reads \cup {state}
    /\ actual_row' = ActualRow(state)
    /\ pc' = "L244"
    /\ UNCHANGED <<shared, hw, leds, last_red, j, shown, path, boot, irqs, last, nticks,
                   elapsed, wire>>

\* Line 244, and the entry of the for loop of line 247.
Main_L244 ==
    /\ pc = "L244"
    /\ reads' = reads \cup {state}
    /\ last_red' = LastRed(state)
    /\ j' = 0
    /\ pc' = "L251"
    /\ UNCHANGED <<shared, hw, leds, actual_row, shown, path, boot, irqs, last, nticks,
                   elapsed, wire>>

\* Lines 251-254: the row byte.
Main_L251 ==
    /\ pc = "L251"
    /\ reads' = reads \cup {state}
    /\ leds' = [leds EXCEPT ![1] = RowByte(state, j)]
    /\ pc' = "L258"
    /\ UNCHANGED <<shared, hw, actual_row, last_red, j, shown, path, boot, irqs, last,
                   nticks, elapsed, wire>>

\* Lines 258-281: the red, green and blue bytes, show_leds, then j++ and
\* the loop test of line 247.
Main_L258 ==
    /\ pc = "L258"
    /\ reads' = reads \cup {state}
    /\ LET red == RedByte(state, j, actual_row, last_red)
       IN  Show(<<leds[1], red, Not8(red), 0>>, shown)
    /\ j' = j + 1
    /\ pc' = IF j + 1 < 8 THEN "L251" ELSE "L213"
    /\ UNCHANGED <<shared, hw, actual_row, last_red, path, irqs, last, nticks, elapsed, wire>>

Main ==
    \/ Main_L213
    \/ Main_L221
    \/ Main_L227
    \/ Main_L233
    \/ Main_L239
    \/ Main_L244
    \/ Main_L251
    \/ Main_L258

Next ==
    \/ Main
    \/ TimerClock
    \/ ISR_TIMER1_COMPA
    \/ \E pressed \in BOOLEAN : ISR_PCINT0(pressed)

Spec == Init /\ [][Next]_vars

\* The main loop never stops, timer 1 never stops counting, and a pending
\* compare-match interrupt is taken whenever interrupts are enabled, which
\* they are outside the handlers.
FairSpec ==
    /\ Spec
    /\ WF_vars(Main)
    /\ WF_vars(TimerClock)
    /\ SF_vars(ISR_TIMER1_COMPA)

\* ------------------------------------------------- shift register driver
\* Byte values the frames of SpecShift are made of: all bits clear, all
\* set, and 0x1D, which differs from its bit reversal and from its complement
\* read in either order.
FrameBytes == {0, 29, 255}

\* What a step of show_leds / shift_out leaves alone.
prog == <<shared, hw, locals, obs, irqs, last, nticks, elapsed>>

\* Faulty variant: most significant bit first.
DataBit_msb(b, byte, bit) == Bit(b[byte + 1], 7 - bit)

\* bytes[j] & (1 << i), as 0 or 1
DataBit(b, byte, bit) == Bit(b[byte + 1], bit)

\* show_leds(frame) is called: lines 178-180 negate the colour bytes, line
\* 184 calls shift_out.
SO_Call(frame) ==
    /\ spc = "call"
    /\ arg' = frame
    /\ bytes' = show_leds(frame)
    /\ edges' = <<>>
    /\ spc' = "L140"
    /\ UNCHANGED <<sj, si, DATA_PIN, LATCH_PIN, CLOCK_PIN, prog>>

\* Faulty variant: the latch is left as the last call set it.
SO_L140_keep ==
    /\ spc = "L140"
    /\ spc' = "L143"
    /\ UNCHANGED <<arg, bytes, sj, si, DATA_PIN, LATCH_PIN, CLOCK_PIN, edges, prog>>

\* Line 140: latch low.
SO_L140 ==
    /\ spc = "L140"
    /\ LATCH_PIN' = 0
    /\ spc' = "L143"
    /\ UNCHANGED <<arg, bytes, sj, si, DATA_PIN, CLOCK_PIN, edges, prog>>

\* Line 143: clock low; then the two loops are entered (lines 146, 149).
SO_L143 ==
    /\ spc = "L143"
    /\ CLOCK_PIN' = 0
    /\ sj' = 0
    /\ si' = 0
    /\ spc' = "L152"
    /\ UNCHANGED <<arg, bytes, DATA_PIN, LATCH_PIN, edges, prog>>

\* Lines 152-158: the data line is set to bit i of bytes[j].
SO_L152 ==
    /\ spc = "L152"
    /\ DATA_PIN' = DataBit(bytes, sj, si)
    /\ spc' = "L161"
    /\ UNCHANGED <<arg, bytes, sj, si, LATCH_PIN, CLOCK_PIN, edges, prog>>

\* Line 161: clock high; the shift register samples the data line on the
\* rising edge.
SO_L161 ==
    /\ spc = "L161"
    /\ CLOCK_PIN' = 1
    /\ edges' = IF CLOCK_PIN = 0 THEN Append(edges, DATA_PIN) ELSE edges
    /\ spc' = "L164"
    /\ UNCHANGED <<arg, bytes, sj, si, DATA_PIN, LATCH_PIN, prog>>

\* Line 164: clock low; then i++ and the tests of lines 149 and 146.
SO_L164 ==
    /\ spc = "L164"
    /\ CLOCK_PIN' = 0
    /\ IF si + 1 <= 7
       THEN /\ si' = si + 1
            /\ sj' = sj
            /\ spc' = "L152"
       ELSE /\ si' = 0
            /\ sj' = sj + 1
            /\ spc' = IF sj + 1 < 4 THEN "L152" ELSE "L169"
    /\ UNCHANGED <<arg, bytes, DATA_PIN, LATCH_PIN, edges, prog>>

\* Line 169: latch high; shift_out and show_leds return.
SO_L169 ==
    /\ spc = "L169"
    /\ LATCH_PIN' = 1
    /\ spc' = "call"
    /\ UNCHANGED <<arg, bytes, sj, si, DATA_PIN, CLOCK_PIN, edges, prog>>

shift_out ==
    \/ SO_L140
    \/ SO_L143
    \/ SO_L152
    \/ SO_L161
    \/ SO_L164
    \/ SO_L169

NextShift ==
    \/ \E frame \in FrameBytes \X FrameBytes \X FrameBytes \X FrameBytes : SO_Call(frame)
    \/ shift_out
    \/ TimerClock
    \/ ISR_TIMER1_COMPA
    \/ \E pressed \in BOOLEAN : ISR_PCINT0(pressed)

SpecShift == Init /\ [][NextShift]_vars

\* ------------------------------------------------------------ properties
\* C1: in every reachable state, state = 255 implies enabled = 0, and
\* enabled # 0 implies state is in 0..63.
C1_StateInvariant ==
    /\ state = 255 => enabled = 0
    /\ enabled # 0 => state \in 0..63

\* The countdown is at its last value, reached by a tick, and still running.
C1_Witness == enabled = 1 /\ state = 63 /\ last = "tick"

\* C2: reset law of the button handler: a press taken while state = 255
\* sets (state, enabled) = (0, 1); a press taken in any other state sets
\* (state, enabled) = (255, 0).
C2_ResetLaw ==
    [][ISR_PCINT0(TRUE) =>
          IF state = 255
          THEN state' = 0 /\ enabled' = 1
          ELSE state' = 255 /\ enabled' = 0]_vars

\* A press was handled in an iteration of the main loop that had read a
\* state other than 255: it has stopped the timer and set the state to 255.
C2_Witness ==
    /\ last = "press"
    /\ path = "overtime"
    /\ pc = "L227"
    /\ state = 255
    /\ enabled = 0

\* C3: while enabled, each run of the timer handler increases state by
\* exactly 1; k handler runs after the start the state is (k, 1) for k in
\* 0..63 and (64, 0) from the 64th run on: neither wrapped nor clamped.
C3_TickLaw ==
    /\ [](state # 255 =>
             IF nticks <= 63
             THEN state = nticks /\ enabled = 1
             ELSE state = 64 /\ enabled = 0)
    /\ [][ISR_TIMER1_COMPA /\ enabled # 0 =>
             /\ state' = state + 1
             /\ enabled' = IF state = 63 THEN 0 ELSE 1]_vars

\* The 64th tick after the start has just been handled.
C3_Witness == nticks = 64 /\ state = 64 /\ enabled = 0 /\ last = "tick"

\* C4: a run of the timer handler with enabled = 0 leaves state and enabled
\* unchanged; state is never in 65..254; a step that takes state away from
\* 64 is a button press.
C4_FrozenTick ==
    /\ [](state \notin 65..254)
    /\ [][ISR_TIMER1_COMPA /\ enabled = 0 => UNCHANGED <<state, enabled>>]_vars
    /\ [][state = 64 /\ state' # 64 => ISR_PCINT0(TRUE)]_vars

\* A tick was handled in overtime, after the 64th, and the state is 64 still.
C4_Witness == nticks = 65 /\ state = 64 /\ enabled = 0 /\ last = "tick"

\* C5: the button handler run with the pin low leaves state, enabled and
\* the timer count unchanged.
C5_ReleaseNoop ==
    [][ISR_PCINT0(FALSE) => UNCHANGED <<state, enabled, TCNT1>>]_vars

\* A release was handled in the middle of the countdown, the timer count
\* not being 0.
C5_Witness == last = "release" /\ enabled = 1 /\ state = 5 /\ TCNT1 = 1

\* The branch the dispatch of lines 213 and 221 takes for the value c.
PathOf(c) == IF c = 255 THEN "idle" ELSE IF c > 63 THEN "overtime" ELSE "running"

\* The 8 frames of a Running pass rendered from the one value c.
PassOf(c) ==
    [n \in 1..8 |->
        LET red == RedByte(c, n - 1, ActualRow(c), LastRed(c))
        IN  <<RowByte(c, n - 1), red, Not8(red), 0>>]

\* The main loop is back at line 213 after a complete iteration.
PassDone == pc = "L213" /\ path # "none"

\* C6: each iteration of the main loop renders from one snapshot of state:
\* there is one value, among those the iteration read, from which both the
\* branch taken and, in the Running branch, all 8 frames are derived.
C6_SingleSnapshot ==
    PassDone =>
        \E c \in reads :
            /\ path = PathOf(c)
            /\ path = "running" => shown = PassOf(c)

\* C7: the 8 frames of a Running iteration have pairwise distinct row
\* bytes that together cover the 8 bit positions, each exactly once.
C7_RowsCoverOnce ==
    PassDone /\ path = "running" =>
        /\ Len(shown) = 8
        /\ \A m, n \in 1..8 : m # n => shown[m][1] # shown[n][1]
        /\ {shown[n][1] : n \in 1..8} = {Pow2(k) : k \in 0..7}

\* The tables and the frame of row index r at counter c, as the
\* specification gives them.
T1 == <<1, 3, 7, 15, 8, 12, 14, 15>>
T2 == <<8, 12, 14, 15, 1, 3, 7, 15>>

RefFrame(c, r) ==
    LET a == (c \div 4) % 8
        s == c % 8
        rowMask == IF c < 32 THEN 2 ^ (7 - r) ELSE 2 ^ r
        red == IF c < 32
               THEN IF r = a THEN T1[s + 1] * 16 ELSE IF r < a THEN 240 ELSE 0
               ELSE IF r = a THEN T2[s + 1] + 240 ELSE IF r < a THEN 255 ELSE 240
    IN  <<rowMask, red, 255 - red, 0>>

\* C8: in a Running iteration all of whose reads of state returned the
\* same c, the frame of row index r is RefFrame(c, r), for every row sent
\* so far; at c = 0 frame 0 is (0x80, 0x10, 0xEF, 0x00) and frame 1 has
\* red 0x00 and green 0xFF.
C8_ReferenceFrames ==
    path = "running" =>
        \A c \in 0..63 :
            reads = {c} =>
                /\ \A n \in 1..Len(shown) : shown[n] = RefFrame(c, n - 1)
                /\ PassDone => Len(shown) = 8
                /\ c = 0 /\ Len(shown) >= 2 =>
                      /\ shown[1] = <<128, 16, 239, 0>>
                      /\ shown[2][2] = 0
                      /\ shown[2][3] = 255

\* A complete pass in the second half of the countdown, state constant.
C8_Witness ==
    /\ PassDone
    /\ path = "running"
    /\ reads = {37}
    /\ Len(shown) = 8
    /\ state = 37

IsFrame(e) == Len(e) = 4

\* The frames among the outputs of an iteration.
FramesOf(out) == SelectSeq(out, IsFrame)

\* Frames per iteration: one, the idle frame, in the Idle branch; two in
\* the Overtime branch; eight in the Running branch.
FramesPerPass ==
    PassDone =>
        /\ path = "idle" => shown = << <<255, 0, 0, 255>> >>
        /\ path = "overtime" => Len(FramesOf(shown)) = 2
        /\ path = "running" => Len(FramesOf(shown)) = 8 /\ Len(shown) = 8

\* C9 as stated: the frame counts of the three branches, and the first
\* frame transmitted after reset is the idle frame.
C9_FirstFrameIdle ==
    /\ []FramesPerPass
    /\ [][boot # "shown" /\ boot' = "shown" =>
             shown' = << <<255, 0, 0, 255>> >>]_vars

\* C9 as amended: the frame counts of the three branches under any
\* interleaving of the handlers, and the first frame transmitted after
\* reset is the idle frame when no button press was handled before it.
C9_FrameCounts ==
    /\ []FramesPerPass
    /\ [][boot = "fresh" /\ boot' = "shown" =>
             shown' = << <<255, 0, 0, 255>> >>]_vars

\* An Overtime iteration during which a press was handled is complete.
C9_Witness ==
    /\ PassDone
    /\ path = "overtime"
    /\ last = "press"
    /\ Len(FramesOf(shown)) = 2

\* The outputs of an Overtime iteration, in order, as far as it has come.
OvertimeShape ==
    path = "overtime" =>
        /\ pc \in {"L227", "L233", "L213"}
        /\ shown = SubSeq(<< <<255, 255, 0, 0>>, <<500>>, <<0, 0, 0, 0>>, <<500>> >>, 1,
                           CASE pc = "L227" -> 1 [] pc = "L233" -> 3 [] OTHER -> 4)

\* C10 as stated: every Overtime iteration sends the red frame, waits,
\* sends the blank frame, waits; and every frame transmitted while state
\* is and stays 64 is one of these two frames.
C10_OnlyRedAndBlankAt64 ==
    /\ []OvertimeShape
    /\ [][(/\ state = 64
           /\ state' = 64
           /\ shown' # shown
           /\ Len(shown') > 0
           /\ IsFrame(shown'[Len(shown')])) =>
             shown'[Len(shown')] \in {<<255, 255, 0, 0>>, <<0, 0, 0, 0>>}]_vars

\* C10 as amended: every Overtime iteration sends the red frame, waits,
\* sends the blank frame, waits, and nothing else; and every iteration
\* all of whose reads of state returned 64 is an Overtime iteration.
C10_OvertimeAlternates ==
    /\ OvertimeShape
    /\ reads = {64} /\ pc # "L221" => path = "overtime"

\* A complete Overtime iteration with state at 64 throughout.
C10_Witness ==
    /\ PassDone
    /\ path = "overtime"
    /\ reads = {64}
    /\ state = 64
    /\ Len(shown) = 4

\* ------------------------------------------------ properties of shift_out
\* Bit k of the transmission of show_leds(row, red, green, blue): bit
\* k mod 8, least significant first, of byte k div 8 of the sequence
\* (row, ~red, ~green, ~blue).
WireBit(f, k) ==
    LET sent == <<f[1], 255 - f[2], 255 - f[3], 255 - f[4]>>
    IN  (sent[(k \div 8) + 1] \div (2 ^ (k % 8))) % 2

\* C11: the call produces exactly 32 rising clock edges; the data line at
\* the k-th of them is WireBit(arg, k); the data line changes only while
\* the clock is low.
C11_BitStream ==
    /\ [](/\ Len(edges) <= 32
          /\ \A k \in 0..(Len(edges) - 1) : edges[k + 1] = WireBit(arg, k)
          /\ spc = "L169" => Len(edges) = 32)
    /\ [][DATA_PIN' # DATA_PIN => CLOCK_PIN = 0 /\ CLOCK_PIN' = 0]_vars
    /\ [][CLOCK_PIN = 0 /\ CLOCK_PIN' = 1 =>
             Len(edges') = Len(edges) + 1 /\ DATA_PIN' = DATA_PIN]_vars

\* The frame (0x1D, 0x00, 0x1D, 0xFF) has been sent, a handler having run
\* during the call.
C11_Witness ==
    /\ spc = "call"
    /\ arg = <<29, 0, 29, 255>>
    /\ Len(edges) = 32
    /\ irqs > 0

\* C12: the latch is low from line 140 to line 169, so during all 32 clock
\* pulses; it goes low before the first pulse; it goes high only in the
\* step that ends the call, after 32 rising edges and with the clock low;
\* the clock never changes while the latch is high, whatever handlers run
\* during the call.
C12_LatchProtocol ==
    /\ [](spc \in {"L143", "L152", "L161", "L164", "L169"} => LATCH_PIN = 0)
    /\ [](spc = "call" /\ Len(edges) = 32 => LATCH_PIN = 1 /\ CLOCK_PIN = 0)
    /\ [][CLOCK_PIN' # CLOCK_PIN => LATCH_PIN = 0 /\ LATCH_PIN' = 0]_vars
    /\ [][LATCH_PIN = 1 /\ LATCH_PIN' = 0 => Len(edges') = 0]_vars
    /\ [][LATCH_PIN = 0 /\ LATCH_PIN' = 1 =>
             /\ Len(edges) = 32
             /\ CLOCK_PIN = 0
             /\ CLOCK_PIN' = 0
             /\ spc' = "call"]_vars

\* A call is in its 32nd clock pulse, the clock high and the latch low, and
\* the timer handler has run during the transmission.
C12_Witness ==
    /\ spc = "L164"
    /\ Len(edges) = 32
    /\ CLOCK_PIN = 1
    /\ LATCH_PIN = 0
    /\ arg = <<255, 29, 0, 0>>
    /\ last = "tick"

\* ------------------------------------------------------------- liveness
\* C13: once a press has set state to 255, either state changes again (a
\* further press) or the main loop begins an iteration that takes the Idle
\* branch; and every iteration that begins while state is 255 sends the
\* idle frame and nothing else, so only the pass in flight at the press
\* sends other frames.
C13_ResetReachesIdle ==
    /\ (state = 255 /\ last = "press") ~>
           (state # 255 \/ (path = "idle" /\ last = "none" /\ pc = "L213"))
    /\ [][pc = "L213" /\ state = 255 /\ Main_L213 =>
             /\ shown' = << <<255, 0, 0, 255>> >>
             /\ path' = "idle"
             /\ pc' = "L213"]_vars

\* A reset press has been handled while a Running pass was in flight.
C13_Witness ==
    /\ state = 255
    /\ last = "press"
    /\ path = "running"
    /\ pc = "L251"
    /\ j = 4

\* C14: from (0, 1) the state becomes (64, 0), by 64 runs of the timer
\* handler, unless a press resets it; at 64 the main loop sends the red
\* frame in an iteration that read 64, unless a press resets the state;
\* and while enabled the state changes only by + 1 or by a press.
C14_CountdownEnds ==
    /\ (state = 0 /\ enabled = 1) ~>
           ((state = 64 /\ enabled = 0 /\ nticks = 64) \/ state = 255)
    /\ (state = 64) ~>
           (\/ state = 255
            \/ /\ path = "overtime"
               /\ 64 \in reads
               /\ Len(shown) >= 1
               /\ shown[1] = <<255, 255, 0, 0>>)
    /\ [][enabled = 1 /\ state' # state =>
             state' = state + 1 \/ ISR_PCINT0(TRUE)]_vars

\* The red frame is out in an iteration that began after the 64th tick.
C14_Witness ==
    /\ state = 64
    /\ enabled = 0
    /\ nticks = 64
    /\ path = "overtime"
    /\ reads = {64}
    /\ pc = "L227"
    /\ shown = << <<255, 255, 0, 0>> >>

\* ----------------------------------------------------- start of the timer
\* C15: the run of the timer handler that takes state from 0 to 1 comes
\* no earlier than one full timer period, OCR1A + 1 timer clocks, after
\* the press that started the countdown.
C15_FirstTickFullPeriod ==
    [][ISR_TIMER1_COMPA /\ state = 0 /\ enabled = 1 => elapsed >= OCR1A + 1]_vars

\* ------------------------------------------------- presses during a wait
\* C16: a press handled during either wait of the Overtime branch changes
\* state at once and nothing of the iteration: the step that ends the first
\* wait sends the all-zero frame right after the red frame, whatever state
\* is; the step that ends the second wait sends nothing; the next
\* iteration is the first to follow the new state.
C16_PressDuringWait ==
    /\ [][ISR_PCINT0(TRUE) /\ pc \in {"L227", "L233"} =>
             /\ UNCHANGED <<pc, shown, path, leds>>
             /\ state' = IF state = 255 THEN 0 ELSE 255]_vars
    /\ [][pc = "L227" /\ pc' # pc =>
             /\ shown = << <<255, 255, 0, 0>> >>
             /\ shown' = << <<255, 255, 0, 0>>, <<500>>, <<0, 0, 0, 0>> >>
             /\ pc' = "L233"]_vars
    /\ [][pc = "L233" /\ pc' # pc =>
             /\ shown' = << <<255, 255, 0, 0>>, <<500>>, <<0, 0, 0, 0>>, <<500>> >>
             /\ pc' = "L213"]_vars
    /\ [][pc = "L213" /\ path = "overtime" /\ pc' # pc =>
             state # 255 /\ shown' = <<>>]_vars
    /\ [][pc = "L213" /\ path = "overtime" /\ state = 255 /\ path' # path =>
             path' = "idle" /\ shown' = << <<255, 0, 0, 255>> >>]_vars

\* An Overtime iteration whose reads of state both returned 64 has sent the
\* blank frame although a press, handled during a wait, had set state to 255.
C16_Witness ==
    /\ pc = "L233"
    /\ path = "overtime"
    /\ reads = {64}
    /\ last = "press"
    /\ state = 255
    /\ shown = << <<255, 255, 0, 0>>, <<500>>, <<0, 0, 0, 0>> >>

\* ------------------------------------------------ shape of running frames
\* C17: every frame the Running branch has sent, whatever ticks and button
\* events were handled during the pass, selects exactly one row, has a green
\* byte that is the bitwise complement of its red byte, and a blue byte of 0
\* (the bytes as main sets them, before show_leds negates them).
C17_RunningFrameShape ==
    path = "running" =>
        \A n \in 1..Len(shown) :
            /\ Len(shown[n]) = 4
            /\ shown[n][1] \in {1, 2, 4, 8, 16, 32, 64, 128}
            /\ shown[n][2] \in 0..255
            /\ shown[n][3] = 255 - shown[n][2]
            /\ shown[n][4] = 0

\* A complete Running pass during which a press reset state to 255, so that
\* its reads of state returned a countdown value and then 255.
C17_Witness ==
    /\ pc = "L213"
    /\ path = "running"
    /\ Len(shown) = 8
    /\ Cardinality(reads) = 2
    /\ 255 \in reads
    /\ last = "press"

\* ------------------------------------------------ exclusion of the modes
\* C18: the main loop sends the solid-red frame only when state has reached
\* 64 since the most recent start, that is after 64 ticks of this countdown;
\* a press that resets a countdown at a value in 0..63 never makes the red
\* frame go out, wherever the main loop is when the press is handled.
C18_RedOnlyAfter64 ==
    [][(shown' # shown /\ Len(shown') = 1 /\ shown'[1] = <<255, 255, 0, 0>>)
           => nticks >= 64]_vars

\* ------------------------------------------- reachable (state, enabled)
\* C19: every reachable pair (state, enabled) is (255, 0), (k, 1) with k in
\* 0..63, or (64, 0); enabled is 1 exactly when state is in 0..63, so a
\* countdown value with the counting turned off is unreachable.  A countdown
\* value k is the number of ticks handled since the start press.
C19_ReachablePairs ==
    /\ <<state, enabled>> \in
           {<<255, 0>>} \cup {<<k, 1>> : k \in 0..63} \cup {<<64, 0>>}
    /\ enabled = 1 <=> state \in 0..63
    /\ state \in 0..63 => nticks = state

\* The start press has just been handled while the main loop was about to
\* begin an iteration: the pair is (0, 1) and no tick has been counted.
C19_Witness ==
    /\ state = 0
    /\ enabled = 1
    /\ nticks = 0
    /\ last = "press"
    /\ pc = "L213"
    /\ path = "idle"

\* ------------------------------------------------- monotone progress
\* The LEDs of one colour a sequence of frames lights: pairs of row byte and
\* column bit; colour 2 is the red byte of a frame, colour 3 the green byte.
LedSet(frames, colour) ==
    UNION {{<<frames[n][1], b>> : b \in {x \in 0..7 : Bit(frames[n][colour], x) = 1}} :
              n \in 1..Len(frames)}

\* C20: a complete Running pass all of whose reads of state returned the
\* same c in 0..63 lights exactly c + 1 red LEDs and 63 - c green LEDs; for
\* c <= 62 its red LEDs are a strict subset of the red LEDs of the pass
\* rendered from c + 1, also from c = 31 to c = 32, and for c >= 1 a strict
\* superset of those of the pass rendered from c - 1.
C20_MonotoneProgress ==
    PassDone /\ path = "running" =>
        \A c \in 0..63 :
            reads = {c} =>
                /\ Len(shown) = 8
                /\ Cardinality(LedSet(shown, 2)) = c + 1
                /\ Cardinality(LedSet(shown, 3)) = 63 - c
                /\ LedSet(shown, 2) \cap LedSet(shown, 3) = {}
                /\ c <= 62 =>
                      /\ LedSet(shown, 2) \subseteq LedSet(PassOf(c + 1), 2)
                      /\ LedSet(shown, 2) # LedSet(PassOf(c + 1), 2)
                /\ c >= 1 =>
                      /\ LedSet(PassOf(c - 1), 2) \subseteq LedSet(shown, 2)
                      /\ LedSet(PassOf(c - 1), 2) # LedSet(shown, 2)

\* A complete pass at the first value after the direction flip: 33 red LEDs.
C20_Witness ==
    /\ PassDone
    /\ path = "running"
    /\ reads = {32}
    /\ Len(shown) = 8
    /\ Cardinality(LedSet(shown, 2)) = 33

====
